---- MODULE Spec2Model ----
(***************************************************************************)
(* Model of GlobalExceptionsFilter (global-exception.filter.ts): the       *)
(* terminal exception filter of the HTTP backend.  Every request whose     *)
(* handling threw a value is passed once to catch(exception, host), which  *)
(* classifies the value, logs it and writes the error response.            *)
(***************************************************************************)
EXTENDS Integers, Sequences, FiniteSets, TLC

\* Number of requests in flight at the same time.
NumRequests == 2

Requests == 1..NumRequests

(***************************************************************************)
(* JavaScript values that occur as message / response body.               *)
(*   t: the run-time type, s: string content, a: array elements.           *)
(***************************************************************************)
Str(s) == [t |-> "string", s |-> s, a |-> <<>>, n |-> 0]
Arr(a) == [t |-> "array", s |-> "", a |-> a, n |-> 0]
Num(n) == [t |-> "number", s |-> "", a |-> <<>>, n |-> n]
Undef == [t |-> "undefined", s |-> "", a |-> <<>>, n |-> 0]

\* JavaScript truthiness, as used by `||`.
Truthy(v) ==
    CASE v.t = "string" -> v.s # ""
      [] v.t = "number" -> v.n # 0
      [] v.t = "array" -> TRUE
      [] OTHER -> FALSE

\* Faulty variant of JoinComma: join() with the default separator.
RECURSIVE JoinNoSpace(_)
JoinNoSpace(a) ==
    IF Len(a) = 0 THEN ""
    ELSE IF Len(a) = 1 THEN a[1]
    ELSE a[1] \o "," \o JoinNoSpace(Tail(a))

\* Array.prototype.join(', ') on an array of strings.
RECURSIVE JoinComma(_)
JoinComma(a) ==
    IF Len(a) = 0 THEN ""
    ELSE IF Len(a) = 1 THEN a[1]
    ELSE a[1] \o ", " \o JoinComma(Tail(a))

(***************************************************************************)
(* Response bodies attached to an HttpException (getResponse()).          *)
(*   t = "string": the body is the string s                                *)
(*   t = "object": the body is an object whose message field is msg        *)
(*                 (Undef when the object has no message field)            *)
(*   t = "null" / "undefined": no body at all                              *)
(***************************************************************************)
StrBody(s) == [t |-> "string", s |-> s, msg |-> Undef]
ObjBody(m) == [t |-> "object", s |-> "", msg |-> m]
NullBody == [t |-> "null", s |-> "", msg |-> Undef]
UndefBody == [t |-> "undefined", s |-> "", msg |-> Undef]

\* HttpStatus members used by the switch of getHttpErrorInfo.
HttpStatus ==
    [BAD_REQUEST |-> 400, UNAUTHORIZED |-> 401, FORBIDDEN |-> 403,
     NOT_FOUND |-> 404, CONFLICT |-> 409, GONE |-> 410,
     PAYLOAD_TOO_LARGE |-> 413, UNSUPPORTED_MEDIA_TYPE |-> 415,
     UNPROCESSABLE_ENTITY |-> 422, INTERNAL_SERVER_ERROR |-> 500,
     NOT_IMPLEMENTED |-> 501, SERVICE_UNAVAILABLE |-> 503]

(***************************************************************************)
(* ResponseInfo constants (http.response-info.constants and                *)
(* extra.response-info.constants): a status code and a category label.     *)
(***************************************************************************)
Info(status, label) == [status |-> status, label |-> label]

BAD_REQUEST == Info(400, "BAD_REQUEST")
UNAUTHORIZED == Info(401, "UNAUTHORIZED")
FORBIDDEN == Info(403, "FORBIDDEN")
NOT_FOUND == Info(404, "NOT_FOUND")
CONFLICT == Info(409, "CONFLICT")
GONE == Info(410, "GONE")
PAYLOAD_TOO_LARGE == Info(413, "PAYLOAD_TOO_LARGE")
UNSUPPORTED_MEDIA_TYPE == Info(415, "UNSUPPORTED_MEDIA_TYPE")
UNPROCESSABLE_ENTITY == Info(422, "UNPROCESSABLE_ENTITY")
INTERNAL_SERVER_ERROR == Info(500, "INTERNAL_SERVER_ERROR")
NOT_IMPLEMENTED == Info(501, "NOT_IMPLEMENTED")
SERVICE_UNAVAILABLE == Info(503, "SERVICE_UNAVAILABLE")
UNEXPECTED_ERROR == Info(500, "UNEXPECTED_ERROR")
UNDEFINED_ERROR == Info(500, "UNDEFINED_ERROR")
\* `let info: ResponseInfo = null`
NullInfo == Info(0, "null")

(***************************************************************************)
(* Thrown values.  kind is the run-time class (or typeof for non-objects): *)
(*   "HttpException", "EnvUndefinedError", "Error"  (all are Error objects)*)
(*   "string", "number", "null", "undefined", "object" (not Error objects) *)
(***************************************************************************)
Thrown(kind, name, message, status, response) ==
    [kind |-> kind, name |-> name, message |-> message,
     status |-> status, response |-> response]

\* The message an HttpException carries (Error.message): the string body,
\* else the string message field of the body, else the words of the class name.
InitMessage(response) ==
    IF response.t = "string" THEN response.s
    ELSE IF response.t = "object" /\ response.msg.t = "string" THEN response.msg.s
    ELSE "Http Exception"

HttpException(status, response) ==
    Thrown("HttpException", "HttpException", InitMessage(response), status, response)

EnvUndefinedError(message) ==
    Thrown("EnvUndefinedError", "EnvUndefinedError", message, 0, UndefBody)

\* new Error(message) and its built-in subclasses (TypeError, ...).
GenericError(name, message) == Thrown("Error", name, message, 0, UndefBody)

\* A thrown value that is not an Error object; for a plain object, message is
\* its own message property.
NonError(kind, message) == Thrown(kind, "", message, 0, UndefBody)

\* Filler for a request whose handling has not thrown yet.
NoException == Thrown("none", "", "", 0, UndefBody)

(***************************************************************************)
(* Inputs.                                                                 *)
(***************************************************************************)
TableStatuses == {400, 401, 403, 404, 409, 410, 413, 415, 422, 500, 501, 503}
OtherStatuses == {418, 502}
Statuses == TableStatuses \cup OtherStatuses

Bodies ==
    {StrBody("Not Found"), StrBody(""),
     ObjBody(Str("Not Found")), ObjBody(Str("")),
     ObjBody(Arr(<<"a required", "b required">>)),
     ObjBody(Arr(<<"b required", "a required">>)),
     ObjBody(Arr(<<"a required">>)), ObjBody(Arr(<<>>)),
     ObjBody(Undef), ObjBody(Num(42)), ObjBody(Num(0)),
     NullBody, UndefBody}

HttpExceptions == {HttpException(st, b) : st \in Statuses, b \in Bodies}

EnvErrors == {EnvUndefinedError("DB_HOST is undefined")}

GenericErrors ==
    {GenericError("Error", "x"), GenericError("TypeError", "boom"),
     GenericError("", "no name")}

NonErrors ==
    {NonError("string", "boom"), NonError("number", "42"),
     NonError("null", ""), NonError("undefined", ""),
     NonError("object", "x"), NonError("object", "secret")}

AllThrown == HttpExceptions \cup EnvErrors \cup GenericErrors \cup NonErrors

\* The values thrown when several requests fail at the same time.
SomeThrown ==
    {HttpException(404, StrBody("Not Found")),
     HttpException(400, ObjBody(Arr(<<"a required", "b required">>))),
     HttpException(418, ObjBody(Str("Not Found"))),
     HttpException(409, NullBody)}
    \cup EnvErrors \cup GenericErrors \cup NonErrors

\* Values the per-request context store holds under 'requestId':
\* nothing, or a string.
NotSet == [set |-> FALSE, v |-> ""]
Held(v) == [set |-> TRUE, v |-> v]
StoreValues(r) == {NotSet, Held(""), Held("req-" \o ToString(r))}

(***************************************************************************)
(* Helper functions of the filter.                                         *)
(***************************************************************************)
IsErrorObject(exception) ==
    exception.kind \in {"HttpException", "EnvUndefinedError", "Error"}

isHandledError(exception) ==
    IF exception.kind = "HttpException" \/ exception.kind = "EnvUndefinedError"
    THEN TRUE
    ELSE FALSE

\* A classified error: class is its run-time class, value the thrown value
\* it is (wrapped = FALSE) or wraps (wrapped = TRUE).  The wrappers only
\* construct the class; which name the constructed object carries is decided
\* by the class, see HandledNames.
getUnExpectedError(error) ==
    [class |-> "CustomUnExpectedError", wrapped |-> TRUE, value |-> error]

getUnDefinedError(error) ==
    [class |-> "CustomUndefinedError", wrapped |-> TRUE, value |-> error]

\* Faulty variant of handleException: the Error test comes first, so a
\* recognized failure, being an Error object, is wrapped.
handleExceptionErrorFirst(exception) ==
    IF IsErrorObject(exception)
    THEN getUnExpectedError(exception)
    ELSE IF isHandledError(exception)
    THEN [class |-> exception.kind, wrapped |-> FALSE, value |-> exception]
    ELSE getUnDefinedError(exception)

handleException(exception) ==
    IF isHandledError(exception)
    THEN [class |-> exception.kind, wrapped |-> FALSE, value |-> exception]
    ELSE IF IsErrorObject(exception)
    THEN getUnExpectedError(exception)
    ELSE getUnDefinedError(exception)

\* handledException.name: a recognized failure carries its own name; what a
\* wrapper carries is decided by the constructors of CustomUnExpectedError and
\* CustomUndefinedError: the class name, the name inherited from Error, or
\* the name of the wrapped value.
HandledNames(handled) ==
    IF handled.wrapped
    THEN {handled.class, "Error", handled.value.name}
    ELSE {handled.value.name}

NoHandled ==
    [class |-> "none", wrapped |-> FALSE, value |-> NoException]

\* Faulty variant of ResolveInfo: the GONE case is missing and the default
\* branch leaves info null.
ResolveInfoIncomplete(status) ==
    CASE status = HttpStatus.BAD_REQUEST -> BAD_REQUEST
      [] status = HttpStatus.UNAUTHORIZED -> UNAUTHORIZED
      [] status = HttpStatus.FORBIDDEN -> FORBIDDEN
      [] status = HttpStatus.NOT_FOUND -> NOT_FOUND
      [] status = HttpStatus.CONFLICT -> CONFLICT
      [] status = HttpStatus.PAYLOAD_TOO_LARGE -> PAYLOAD_TOO_LARGE
      [] status = HttpStatus.UNSUPPORTED_MEDIA_TYPE -> UNSUPPORTED_MEDIA_TYPE
      [] status = HttpStatus.UNPROCESSABLE_ENTITY -> UNPROCESSABLE_ENTITY
      [] status = HttpStatus.INTERNAL_SERVER_ERROR -> INTERNAL_SERVER_ERROR
      [] status = HttpStatus.NOT_IMPLEMENTED -> NOT_IMPLEMENTED
      [] status = HttpStatus.SERVICE_UNAVAILABLE -> SERVICE_UNAVAILABLE
      [] OTHER -> NullInfo

\* The switch of getHttpErrorInfo: info starts null and every branch,
\* the default included, assigns it.
ResolveInfo(status) ==
    CASE status = HttpStatus.BAD_REQUEST -> BAD_REQUEST
      [] status = HttpStatus.UNAUTHORIZED -> UNAUTHORIZED
      [] status = HttpStatus.FORBIDDEN -> FORBIDDEN
      [] status = HttpStatus.NOT_FOUND -> NOT_FOUND
      [] status = HttpStatus.CONFLICT -> CONFLICT
      [] status = HttpStatus.GONE -> GONE
      [] status = HttpStatus.PAYLOAD_TOO_LARGE -> PAYLOAD_TOO_LARGE
      [] status = HttpStatus.UNSUPPORTED_MEDIA_TYPE -> UNSUPPORTED_MEDIA_TYPE
      [] status = HttpStatus.UNPROCESSABLE_ENTITY -> UNPROCESSABLE_ENTITY
      [] status = HttpStatus.INTERNAL_SERVER_ERROR -> INTERNAL_SERVER_ERROR
      [] status = HttpStatus.NOT_IMPLEMENTED -> NOT_IMPLEMENTED
      [] status = HttpStatus.SERVICE_UNAVAILABLE -> SERVICE_UNAVAILABLE
      [] OTHER -> INTERNAL_SERVER_ERROR

\* Reading `.message` of the response body raises a TypeError when the body
\* is null or undefined (typeof is then not 'string').
HttpErrorInfoThrows(exception) ==
    exception.response.t \in {"null", "undefined"}

\* Faulty variant of ExtractMessage: the message field of an object body is
\* not read.
ExtractMessageNoField(exception) ==
    LET exceptionResponse == exception.response IN
    IF exceptionResponse.t = "string"
    THEN Str(exceptionResponse.s)
    ELSE Str("Internal server error")

\* The message computed before the switch.
ExtractMessage(exception) ==
    LET exceptionResponse == exception.response IN
    IF exceptionResponse.t = "string"
    THEN Str(exceptionResponse.s)
    ELSE IF Truthy(exceptionResponse.msg)
    THEN exceptionResponse.msg
    ELSE Str(exception.message)

\* The BAD_REQUEST branch: an array message is joined.
JoinIfBadRequest(exception, message) ==
    IF exception.status = HttpStatus.BAD_REQUEST
       /\ exception.response.msg.t = "array"
    THEN Str(JoinComma(exception.response.msg.a))
    ELSE message

\* Defined when ~HttpErrorInfoThrows(exception).
getHttpErrorInfo(exception) ==
    [info |-> ResolveInfo(exception.status),
     message |-> JoinIfBadRequest(exception, ExtractMessage(exception))]

(***************************************************************************)
(* State.                                                                  *)
(*   cls[r]              what the context store of request r holds under   *)
(*                       'requestId'                                       *)
(*   pc[r]               "pending": catch has not run for r;               *)
(*                       "responded": catch wrote the response;            *)
(*                       "raised": catch itself raised                     *)
(*   exception[r]        the value passed to catch for r                   *)
(*   handledException[r] the result of handleException in that call        *)
(*   trace[r]            what the call did, in order: logger.error calls   *)
(*                       and the response written                          *)
(***************************************************************************)
VARIABLES cls, pc, exception, handledException, trace

vars == <<cls, pc, exception, handledException, trace>>

\* Template-literal conversion of a value to a string.
RECURSIVE JoinPlain(_)
JoinPlain(a) ==
    IF Len(a) = 0 THEN ""
    ELSE IF Len(a) = 1 THEN a[1]
    ELSE a[1] \o "," \o JoinPlain(Tail(a))

ToStr(v) ==
    CASE v.t = "string" -> v.s
      [] v.t = "array" -> JoinPlain(v.a)
      [] v.t = "number" -> ToString(v.n)
      [] OTHER -> v.t

\* Faulty variant of GetRequestId: one store shared by all requests.
GetRequestIdShared(store, r) ==
    IF store[1].set THEN store[1].v ELSE "Request ID undefined"

\* this.cls.get('requestId') ?? 'Request ID undefined', in the context of
\* request r.
GetRequestId(store, r) ==
    IF store[r].set THEN store[r].v ELSE "Request ID undefined"

\* Faulty variant of ErrorInfo: outside the HttpException branch the outward
\* message is the failure's own message.
ErrorInfoOwnMessage(handled) ==
    IF handled.class = "HttpException"
    THEN LET r == getHttpErrorInfo(handled.value) IN
         [info |-> r.info, message |-> r.message, extra |-> <<>>]
    ELSE IF handled.class = "CustomUnExpectedError"
    THEN [info |-> UNEXPECTED_ERROR, message |-> Str(handled.value.message),
          extra |-> <<"UnDefinedError Occured">>]
    ELSE IF handled.class = "CustomUndefinedError"
    THEN [info |-> UNDEFINED_ERROR, message |-> Str(handled.value.message),
          extra |-> <<"UnExpectedError Occured">>]
    ELSE [info |-> INTERNAL_SERVER_ERROR, message |-> Str(handled.value.message),
          extra |-> <<>>]

\* The defaults and the instanceof chain of catch: the ResponseInfo, the
\* outward message and the text of the additional log call of the branch.
ErrorInfo(handled) ==
    IF handled.class = "HttpException"
    THEN LET r == getHttpErrorInfo(handled.value) IN
         [info |-> r.info, message |-> r.message, extra |-> <<>>]
    ELSE IF handled.class = "CustomUnExpectedError"
    THEN [info |-> UNEXPECTED_ERROR, message |-> Str("Internal server error"),
          extra |-> <<"UnDefinedError Occured">>]
    ELSE IF handled.class = "CustomUndefinedError"
    THEN [info |-> UNDEFINED_ERROR, message |-> Str("Internal server error"),
          extra |-> <<"UnExpectedError Occured">>]
    ELSE [info |-> INTERNAL_SERVER_ERROR, message |-> Str("Internal server error"),
          extra |-> <<>>]

LogEntry(text, errorObject) ==
    [type |-> "log", level |-> "error", text |-> text, error |-> errorObject]

\* GlobalErrorDto.create(message)
GlobalErrorDto(message) == [message |-> message]

\* BaseResponse.create(requestId, info, data)
BaseResponse(requestId, info, errDto) ==
    [requestId |-> requestId, responseInfo |-> info, error |-> errDto]

\* response.status(code).json(body)
ResponseWrite(status, body) ==
    [type |-> "response", status |-> status, body |-> body]

\* Faulty variant of CatchLogs: the log call of the branch is missing.
CatchLogsMainOnly(requestId, handled, name) ==
    LET errName == IF name # "" THEN name ELSE "Error"
        ei == ErrorInfo(handled)
    IN  <<LogEntry("Request Error - ID: " \o requestId \o ", " \o errName
                   \o ": " \o ToStr(ei.message), handled)>>

\* The logger calls of catch, in order; name is handledException.name.
CatchLogs(requestId, handled, name) ==
    LET errName == IF name # "" THEN name ELSE "Error"
        ei == ErrorInfo(handled)
    IN  [i \in 1..Len(ei.extra) |->
            LogEntry("Request Error - ID: " \o requestId \o ", " \o ei.extra[i],
                     NoHandled)]
        \o <<LogEntry("Request Error - ID: " \o requestId \o ", " \o errName
                      \o ": " \o ToStr(ei.message), handled)>>

\* The response catch writes after logging.
CatchResponse(requestId, handled) ==
    LET ei == ErrorInfo(handled)
        errDto == GlobalErrorDto(ei.message)
        errResponse == BaseResponse(requestId, ei.info, errDto)
    IN  ResponseWrite(errResponse.responseInfo.status, errResponse)

\* catch raises instead of returning: only getHttpErrorInfo can raise.
CatchRaises(handled) ==
    handled.class = "HttpException" /\ HttpErrorInfoThrows(handled.value)

Init ==
    /\ cls \in [Requests -> UNION {StoreValues(r) : r \in Requests}]
    /\ \A r \in Requests : cls[r] \in StoreValues(r)
    /\ pc = [r \in Requests |-> "pending"]
    /\ exception = [r \in Requests |-> NoException]
    /\ handledException = [r \in Requests |-> NoHandled]
    /\ trace = [r \in Requests |-> <<>>]

\* GlobalExceptionsFilter.catch(e, host) for the failed request r.
Catch(r, e) ==
    /\ pc[r] = "pending"
    /\ \E name \in HandledNames(handleException(e)) :
       LET handled == handleException(e)
           requestId == GetRequestId(cls, r)
       IN  /\ exception' = [exception EXCEPT ![r] = e]
           /\ handledException' = [handledException EXCEPT ![r] = handled]
           /\ IF CatchRaises(handled)
              THEN /\ pc' = [pc EXCEPT ![r] = "raised"]
                   /\ UNCHANGED trace
              ELSE /\ pc' = [pc EXCEPT ![r] = "responded"]
                   /\ trace' = [trace EXCEPT ![r] =
                          CatchLogs(requestId, handled, name)
                          \o <<CatchResponse(requestId, handled)>>]
    /\ UNCHANGED cls

\* Several requests fail concurrently.
Next == \E r \in Requests : \E e \in SomeThrown : Catch(r, e)

Spec == Init /\ [][Next]_vars

\* One request fails, with any of the thrown values.
NextSingle == \E e \in AllThrown : Catch(1, e)

SpecSingle == Init /\ [][NextSingle]_vars

TypeOK ==
    /\ pc \in [Requests -> {"pending", "responded", "raised"}]
    /\ \A r \in Requests : Len(trace[r]) <= 3

(***************************************************************************)
(* Observations used by the properties.                                    *)
(***************************************************************************)
Responded(r) == pc[r] = "responded"

\* The response written for r (the last thing catch does).
ResponseOf(r) == trace[r][Len(trace[r])]

BodyOf(r) == ResponseOf(r).body

LogPositions(r) == {i \in 1..Len(trace[r]) : trace[r][i].type = "log"}

ResponsePositions(r) == {i \in 1..Len(trace[r]) : trace[r][i].type = "response"}

IsHttp(r) == exception[r].kind = "HttpException"

GenericMessage == Str("Internal server error")

\* C1: for every HTTP exception answered, the category is the one the fixed
\* 12-entry table gives for its status code, INTERNAL_SERVER_ERROR for every
\* other status code, and never null.
C1_StatusTable ==
    \A r \in Requests :
        (Responded(r) /\ IsHttp(r)) =>
            LET st == exception[r].status
                label == BodyOf(r).responseInfo.label
            IN  /\ label # "null"
                /\ label =
                     CASE st = 400 -> "BAD_REQUEST"
                       [] st = 401 -> "UNAUTHORIZED"
                       [] st = 403 -> "FORBIDDEN"
                       [] st = 404 -> "NOT_FOUND"
                       [] st = 409 -> "CONFLICT"
                       [] st = 410 -> "GONE"
                       [] st = 413 -> "PAYLOAD_TOO_LARGE"
                       [] st = 415 -> "UNSUPPORTED_MEDIA_TYPE"
                       [] st = 422 -> "UNPROCESSABLE_ENTITY"
                       [] st = 500 -> "INTERNAL_SERVER_ERROR"
                       [] st = 501 -> "NOT_IMPLEMENTED"
                       [] st = 503 -> "SERVICE_UNAVAILABLE"
                       [] OTHER -> "INTERNAL_SERVER_ERROR"

\* A 410 exception was answered with GONE.
C1_Witness ==
    \E r \in Requests :
        /\ Responded(r) /\ IsHttp(r)
        /\ exception[r].status = 410
        /\ BodyOf(r).responseInfo.label = "GONE"

\* C2: catch never raises: whatever value is thrown, also an HTTP exception
\* whose response body is null or undefined, catch completes by writing a
\* response.
C2_NeverThrows ==
    \A r \in Requests : pc[r] # "raised"

\* C3: the response to a non-recognized failure does not depend on the
\* failure: two generic Error objects (or two non-error values) get the same
\* status, the same category and the message "Internal server error", and the
\* failure's own message is not in the body.
NonRecognizedClass(e) ==
    IF isHandledError(e) \/ e.kind = "none" THEN "recognized"
    ELSE IF IsErrorObject(e) THEN "error" ELSE "non-error"

C3_NoContentDependence ==
    \A r1 \in Requests : \A r2 \in Requests :
        (/\ Responded(r1) /\ Responded(r2)
         /\ NonRecognizedClass(exception[r1]) # "recognized"
         /\ NonRecognizedClass(exception[r1]) = NonRecognizedClass(exception[r2]))
        => /\ ResponseOf(r1).status = ResponseOf(r2).status
           /\ BodyOf(r1).responseInfo = BodyOf(r2).responseInfo
           /\ BodyOf(r1).error = BodyOf(r2).error
           /\ BodyOf(r1).error.message = GenericMessage
           /\ BodyOf(r1).error.message # Str(exception[r1].message)

\* Two generic errors with different messages were both answered.
C3_Witness ==
    \E r1 \in Requests : \E r2 \in Requests :
        /\ r1 # r2 /\ Responded(r1) /\ Responded(r2)
        /\ exception[r1].kind = "Error" /\ exception[r2].kind = "Error"
        /\ exception[r1].message # exception[r2].message
        /\ BodyOf(r1).error.message = GenericMessage
        /\ BodyOf(r2).error.message = GenericMessage

\* The message a recognized failure carries itself: the string body or the
\* message field of the object body (for status 400 an array message joined),
\* else the exception's own message.
OwnMessage(e) ==
    IF e.kind # "HttpException" THEN Str(e.message)
    ELSE IF e.response.t = "string" THEN Str(e.response.s)
    ELSE IF e.response.msg.t = "array" /\ e.status = 400
         THEN Str(JoinComma(e.response.msg.a))
    ELSE IF e.response.msg.t # "undefined" THEN e.response.msg
    ELSE Str(e.message)

\* C4 (as stated): every recognized failure, an HTTP exception of any status
\* code or the environment-configuration error, is answered with its own
\* status code and its own message verbatim (array message joined for 400).
C4_OwnStatusAndMessage ==
    \A r \in Requests :
        (Responded(r) /\ isHandledError(exception[r])) =>
            /\ IsHttp(r) => ResponseOf(r).status = exception[r].status
            /\ BodyOf(r).error.message = OwnMessage(exception[r])

\* The label of the category the fixed table gives a status code.
TableLabel(st) ==
    CASE st = 400 -> "BAD_REQUEST"
      [] st = 401 -> "UNAUTHORIZED"
      [] st = 403 -> "FORBIDDEN"
      [] st = 404 -> "NOT_FOUND"
      [] st = 409 -> "CONFLICT"
      [] st = 410 -> "GONE"
      [] st = 413 -> "PAYLOAD_TOO_LARGE"
      [] st = 415 -> "UNSUPPORTED_MEDIA_TYPE"
      [] st = 422 -> "UNPROCESSABLE_ENTITY"
      [] st = 501 -> "NOT_IMPLEMENTED"
      [] st = 503 -> "SERVICE_UNAVAILABLE"
      [] OTHER -> "INTERNAL_SERVER_ERROR"

\* C4 (amended): an answered HTTP exception gets the category the fixed table
\* gives its status code, INTERNAL_SERVER_ERROR when the code is outside the
\* table, and the HTTP status of that category; its message is written as it
\* is when it is truthy (an array message joined for 400) and is replaced by
\* the exception's own message when it is absent, empty or zero; the
\* environment-configuration error gets INTERNAL_SERVER_ERROR and the generic
\* message "Internal server error".
C4_RecognizedAnswer ==
    \A r \in Requests :
        (Responded(r) /\ isHandledError(exception[r])) =>
            LET e == exception[r] IN
            /\ ResponseOf(r).status = BodyOf(r).responseInfo.status
            /\ IF IsHttp(r)
               THEN /\ BodyOf(r).responseInfo.label = TableLabel(e.status)
                    /\ BodyOf(r).error.message =
                           IF e.response.t = "object"
                              /\ e.response.msg.t \in {"string", "number"}
                              /\ ~Truthy(e.response.msg)
                           THEN Str(e.message)
                           ELSE OwnMessage(e)
               ELSE /\ BodyOf(r).responseInfo.label = "INTERNAL_SERVER_ERROR"
                    /\ BodyOf(r).error.message = GenericMessage

\* The environment-configuration error was answered with the generic message.
C4_Witness ==
    \E r \in Requests :
        /\ Responded(r)
        /\ exception[r].kind = "EnvUndefinedError"
        /\ BodyOf(r).error.message = GenericMessage
        /\ BodyOf(r).error.message # Str(exception[r].message)

\* The message string of a body: the string body itself or the string message
\* field of an object body.
HasStringMessage(e) ==
    \/ e.response.t = "string"
    \/ e.response.t = "object" /\ e.response.msg.t = "string"

StringMessage(e) ==
    IF e.response.t = "string" THEN e.response.s ELSE e.response.msg.s

\* C5: an HTTP exception whose status s is in the fixed table and whose
\* message is a string m (string body, or message field of an object body) is
\* answered with HTTP status s and body message m.
C5_TableStatusAndStringMessage ==
    \A r \in Requests :
        (/\ Responded(r) /\ IsHttp(r)
         /\ exception[r].status \in TableStatuses
         /\ HasStringMessage(exception[r]))
        => /\ ResponseOf(r).status = exception[r].status
           /\ BodyOf(r).error.message.t = "string"
           /\ BodyOf(r).error.message.s = StringMessage(exception[r])

\* A 404 with the object-body message "Not Found" was answered 404 "Not Found".
C5_Witness ==
    \E r \in Requests :
        /\ Responded(r) /\ IsHttp(r)
        /\ exception[r].status = 404
        /\ exception[r].response = ObjBody(Str("Not Found"))
        /\ ResponseOf(r).status = 404
        /\ BodyOf(r).error.message = Str("Not Found")

\* C6: a 400 whose body message is a sequence of strings is answered with the
\* strings joined in order with ", " and the category BAD_REQUEST.
C6_ArrayJoin ==
    \A r \in Requests :
        (/\ Responded(r) /\ IsHttp(r)
         /\ exception[r].status = 400
         /\ exception[r].response.t = "object"
         /\ exception[r].response.msg.t = "array")
        => LET a == exception[r].response.msg.a
               m == BodyOf(r).error.message
           IN  /\ BodyOf(r).responseInfo.label = "BAD_REQUEST"
               /\ m.t = "string"
               /\ a = <<>> => m.s = ""
               /\ a = <<"a required">> => m.s = "a required"
               /\ a = <<"a required", "b required">>
                      => m.s = "a required, b required"
               /\ a = <<"b required", "a required">>
                      => m.s = "b required, a required"

\* ["a required", "b required"] was answered "a required, b required".
C6_Witness ==
    \E r \in Requests :
        /\ Responded(r) /\ IsHttp(r)
        /\ exception[r].status = 400
        /\ exception[r].response = ObjBody(Arr(<<"a required", "b required">>))
        /\ BodyOf(r).error.message = Str("a required, b required")

\* Every log entry of r precedes the one response written for r.
LogsBeforeResponse(r) ==
    /\ Cardinality(ResponsePositions(r)) = 1
    /\ \A i \in LogPositions(r) : \A j \in ResponsePositions(r) : i < j
    /\ \A i \in LogPositions(r) : trace[r][i].level = "error"

\* C7 (as stated): for every handled failure, whatever its classification,
\* catch emits exactly one error-level log entry, before the response.
C7_ExactlyOneLog ==
    \A r \in Requests :
        Responded(r) =>
            /\ Cardinality(LogPositions(r)) = 1
            /\ LogsBeforeResponse(r)

\* C7 (amended): for every failure catch answers, all its error-level log
\* entries are emitted before the response is written: exactly one entry for
\* a recognized failure and two for an unexpected or undefined failure, the
\* last of them carrying the classified error.
C7_LogsThenResponse ==
    \A r \in Requests :
        Responded(r) =>
            /\ LogsBeforeResponse(r)
            /\ Cardinality(LogPositions(r)) =
                   IF isHandledError(exception[r]) THEN 1 ELSE 2
            /\ trace[r][Len(trace[r]) - 1].type = "log"
            /\ trace[r][Len(trace[r]) - 1].error = handledException[r]

\* A generic Error was answered after two log entries.
C7_Witness ==
    \E r \in Requests :
        /\ Responded(r)
        /\ exception[r].kind = "Error"
        /\ Cardinality(LogPositions(r)) = 2
        /\ ResponsePositions(r) = {3}

\* C8: in every response the body's error.message is a single string, and the
\* HTTP status written is the status of the body's responseInfo.
C8_MessageIsString ==
    \A r \in Requests :
        Responded(r) =>
            /\ BodyOf(r).error.message.t = "string"
            /\ ResponseOf(r).status = BodyOf(r).responseInfo.status

\* The request id the context of r gives: the value held, or the literal.
OwnRequestId(r) ==
    IF cls[r] = NotSet THEN "Request ID undefined" ELSE cls[r].v

\* C9: the requestId of the response and of every log entry of a request is
\* the value its own context store holds, and "Request ID undefined" when the
\* store holds none; never the value of another request.
C9_OwnRequestId ==
    \A r \in Requests :
        Responded(r) =>
            /\ BodyOf(r).requestId = OwnRequestId(r)
            /\ \A i \in LogPositions(r) :
                  \/ trace[r][i].text = "Request Error - ID: " \o OwnRequestId(r)
                        \o ", UnDefinedError Occured"
                  \/ trace[r][i].text = "Request Error - ID: " \o OwnRequestId(r)
                        \o ", UnExpectedError Occured"
                  \/ \E name \in HandledNames(handledException[r]) :
                        trace[r][i].text = "Request Error - ID: " \o OwnRequestId(r)
                            \o ", " \o (IF name # "" THEN name ELSE "Error")
                            \o ": " \o ToStr(BodyOf(r).error.message)

\* Two requests were answered, one with the id its store holds and one, whose
\* store holds none, with the literal.
C9_Witness ==
    \E r1 \in Requests : \E r2 \in Requests :
        /\ Responded(r1) /\ Responded(r2)
        /\ cls[r1] = Held("req-" \o ToString(r1))
        /\ cls[r2] = NotSet
        /\ BodyOf(r1).requestId = "req-" \o ToString(r1)
        /\ BodyOf(r2).requestId = "Request ID undefined"

\* C10: classification is total, exclusive and first-match-wins: a recognized
\* failure is returned unchanged (although it is an Error object), any other
\* Error object becomes an UnexpectedFailure with category UNEXPECTED_ERROR,
\* every other value an UndefinedFailure with category UNDEFINED_ERROR.
C10_Classification ==
    \A r \in Requests :
        pc[r] # "pending" =>
            LET e == exception[r]
                h == handledException[r]
            IN  /\ h.value = e
                /\ h.class \in {"HttpException", "EnvUndefinedError",
                                "CustomUnExpectedError", "CustomUndefinedError"}
                /\ e.kind \in {"HttpException", "EnvUndefinedError"}
                      => (h.class = e.kind /\ ~h.wrapped)
                /\ e.kind = "Error"
                      => /\ h.class = "CustomUnExpectedError" /\ h.wrapped
                         /\ Responded(r)
                         /\ BodyOf(r).responseInfo.label = "UNEXPECTED_ERROR"
                /\ e.kind \in {"string", "number", "null", "undefined", "object"}
                      => /\ h.class = "CustomUndefinedError" /\ h.wrapped
                         /\ Responded(r)
                         /\ BodyOf(r).responseInfo.label = "UNDEFINED_ERROR"

\* The thrown string "boom" was classified as UndefinedFailure.
C10_Witness ==
    \E r \in Requests :
        /\ Responded(r)
        /\ exception[r] = NonError("string", "boom")
        /\ handledException[r].class = "CustomUndefinedError"
        /\ BodyOf(r).responseInfo.label = "UNDEFINED_ERROR"
        /\ BodyOf(r).error.message = GenericMessage

====
